---- MODULE Spec2Model ----
(***************************************************************************)
(* Model of src/main.py (RedditBot): the ingest loop (stream), the         *)
(* eligibility check (_should_reply), the queue (_queued_comments), the     *)
(* dispatch loop (_start_replying) with its cooldown and its lock, and the *)
(* platform the bot talks to (feed, own-comment history, clock).           *)
(*                                                                         *)
(* Coroutines are cut at their awaits: one action runs from one await to   *)
(* the next, as asyncio's cooperative scheduling does.  The await of       *)
(* user.me() is the exception: it shares nothing with the other task and   *)
(* is part of the step before it.  The own comments are listed in one      *)
(* fetch, and the list is taken to hold all of them.  Time is counted in   *)
(* ticks, TicksPerSecond of them to the second, so that the ceiling of     *)
(* line 135 is a real rounding.                                            *)
(*                                                                         *)
(* Spec is the program as it runs.  PureSpec and WaitSpec apply the         *)
(* eligibility check and the cooldown wait to drawn inputs, LiveSpec adds   *)
(* fair scheduling to Spec, and WorkersSpec runs the dispatch loop as two   *)
(* tasks.                                                                   *)
(***************************************************************************)
EXTENDS Integers, Sequences, FiniteSets, TLC

\* ----------------------------------------------------------------- bounds
MaxTime == 2
MaxComments == 2
MaxEvents == 2
MaxHist == 2
MaxStamp == 2
MaxCooldown == 5

\* ------------------------------------------------------ program constants
\* Resolution of the clock below the second that math.ceil rounds up to.
TicksPerSecond == 2
\* dt.datetime.min, far enough in the past that now - min exceeds any timeout.
DatetimeMin == -1000
\* The configured cooldowns considered (params.timeout), in ticks: half a
\* second, so that the wait is rounded up to a whole second.
Timeouts == {1}

Me == "me"
Other == "other"
Authors == {Me, Other}
\* What BeautifulSoup(...).get_text() and compiled_pattern.search make of a body:
\* the text matches, the text does not match, or the conversion raises.
Bodies == {"match", "nomatch", "malformed"}
\* What reddit.user.me() does: returns the redditor, returns None, or raises.
MeResults == {"ok", "none", "raise"}
\* What comment.reply does: returns, or raises.
ReplyResults == {"ok", "raise"}

VARIABLES
    timeout,          \* params.timeout, in ticks
    dry_run,          \* params.dry_run
    now,              \* the wall clock, in ticks
    comments,         \* the platform's comments that can become targets, by id
    history,          \* the account's own comments, newest first: [created, parent]
    externals,        \* number of replies made under the account by another process
    queued_comments,  \* _queued_comments
    putTasks,         \* _reply_in_the_future tasks created and not yet run
    last_reply_time,  \* _last_reply_time
    reply_lock,       \* _reply_lock is held
    ipc, icur,        \* stream(): position, comment at hand
    dpc, dcur, wakeAt,\* _start_replying(): position, item at hand, wake-up time
    icause, dcause,   \* why a loop ended ("none" while it runs)
    judged,           \* ids in the order stream() judged them eligible
    log,              \* dispatch outcomes in order: [id, outcome, t, stale]
    netCalls,         \* number of comment.reply calls made
    staleAtLock,      \* a reply to dcur was in the history when the lock was taken
    wpc, wcur, wwake, \* the same per task when several _start_replying tasks run
    chk               \* last evaluation of the eligibility check on drawn inputs

vars == <<timeout, dry_run, now, comments, history, externals, queued_comments,
          putTasks, last_reply_time, reply_lock, ipc, icur, dpc, dcur,
          wakeAt, icause, dcause, judged, log, netCalls, staleAtLock,
          wpc, wcur, wwake, chk>>

\* ---------------------------------------------------------------- helpers
NoChk == [used |-> FALSE]

\* The value of a comment variable that holds no comment.
NoComment == [id |-> 0, author |-> Other, body |-> "nomatch", created |-> 0]

\* math.ceil(wait_time.total_seconds()), in ticks.
CeilSeconds(w) == ((w + TicksPerSecond - 1) \div TicksPerSecond) * TicksPerSecond

FloorSeconds(w) == (w \div TicksPerSecond) * TicksPerSecond

CooldownWaitUnrounded(t, last, tmo) ==
    IF t - last < tmo THEN tmo - (t - last) ELSE 0

CooldownWaitFloor(t, last, tmo) ==
    IF t - last < tmo THEN FloorSeconds(tmo - (t - last)) ELSE 0

\* Lines 132-135: how long the dispatcher sleeps after a pop at time t.
CooldownWait(t, last, tmo) ==
    IF t - last < tmo THEN CeilSeconds(tmo - (t - last)) ELSE 0

\* ------------------------------------------------- the eligibility check
ScanBreaksNever(r, tcreated) == FALSE

\* Line 114: the scan stops at an own comment older than the target.
ScanBreaks(r, tcreated) == r.created < tcreated

\* Lines 111-120: the scan of the own comments from position i on; replied is
\* the answer, examined the number of own comments looked at.
RECURSIVE ScanFrom(_, _, _)
ScanFrom(hist, i, c) ==
    IF i > Len(hist) THEN [replied |-> FALSE, examined |-> Len(hist)]
    ELSE IF ScanBreaks(hist[i], c.created) THEN [replied |-> FALSE, examined |-> i]
    ELSE IF hist[i].parent = c.id THEN [replied |-> TRUE, examined |-> i]
    ELSE ScanFrom(hist, i + 1, c)

AlreadyRepliedToNever(hist, c) == FALSE

AlreadyRepliedTo(hist, c) == ScanFrom(hist, 1, c).replied

TextStageNoSearch(c) == IF c.body = "malformed" THEN "raise" ELSE "next"

\* Lines 92-97: "raise" when the conversion raises, "false" when the pattern is
\* not found, "next" when the check goes on.
TextStage(c) ==
    CASE c.body = "malformed" -> "raise"
      [] c.body = "nomatch" -> "false"
      [] OTHER -> "next"

MeStageNoSelfCheck(c, me) ==
    CASE me = "raise" -> "raise"
      [] me = "none" -> "false"
      [] OTHER -> "next"

\* Lines 99-107: the own-identity lookup and the self check.
MeStage(c, me) ==
    CASE me = "raise" -> "raise"
      [] me = "none" -> "false"
      [] c.author = Me -> "false"
      [] OTHER -> "next"

HistStageNoScan(c, hist) == "true"

\* Lines 111-122: the answer once text and identity have passed.
HistStage(c, hist) == IF AlreadyRepliedTo(hist, c) THEN "false" ELSE "true"

\* Lines 92-107: the check up to the fetch of the own comments, me being what
\* user.me() does if it is called.
CheckFront(c, me) == IF TextStage(c) # "next" THEN TextStage(c) ELSE MeStage(c, me)

\* Which call raised.
FrontCause(c) == IF TextStage(c) = "raise" THEN "parse" ELSE "me"

\* Lines 91-122, whole: "true", "false", or "raise" when an exception leaves it.
should_reply(c, me, hist) ==
    IF CheckFront(c, me) # "next" THEN CheckFront(c, me) ELSE HistStage(c, hist)

\* ------------------------------------------------------------ the queue
QueueGetLast(q) == [item |-> q[Len(q)], rest |-> SubSeq(q, 1, Len(q) - 1)]

\* Line 129: asyncio.Queue.get pops the oldest entry.
QueueGet(q) == [item |-> Head(q), rest |-> Tail(q)]

IssuesNetworkCallAlways(dr) == TRUE

\* Line 146: the reply call is made unless dry_run.
IssuesNetworkCall(dr) == ~dr

\* ----------------------------------------------------------------- Init
Init ==
    /\ timeout \in Timeouts
    /\ dry_run \in BOOLEAN
    /\ now = 0
    /\ comments = <<>>
    /\ history = <<>>
    /\ externals = 0
    /\ queued_comments = <<>>
    /\ putTasks = <<>>
    /\ last_reply_time = DatetimeMin
    /\ reply_lock = FALSE
    /\ ipc = "recv" /\ icur = NoComment
    /\ dpc = "get" /\ dcur = NoComment /\ wakeAt = 0
    /\ icause = "none" /\ dcause = "none"
    /\ judged = <<>>
    /\ log = <<>>
    /\ netCalls = 0
    /\ staleAtLock = FALSE
    /\ wpc = <<>> /\ wcur = <<>> /\ wwake = <<>>
    /\ chk = NoChk

cfgVars == <<timeout, dry_run>>
ingestVars == <<ipc, icur, icause, judged, putTasks>>
workerVars == <<wpc, wcur, wwake>>
dispatchVars == <<dpc, dcur, wakeAt, dcause, log, netCalls, staleAtLock,
                  last_reply_time, reply_lock, workerVars>>

\* What the platform has done that the bot has to deal with: comments judged
\* eligible and replies of another process.  The model caps their number.
Events == Len(judged) + externals

\* The process runs until stream() raises (main awaits it, lines 204 and 214).
Running == ipc # "dead"

\* ------------------------------------------------------------ the world
\* The clock advances.  Once the process has ended nothing more is observed.
Tick ==
    /\ Running /\ now < MaxTime
    /\ now' = now + 1
    /\ UNCHANGED <<cfgVars, comments, history, externals, queued_comments,
                   ingestVars, dispatchVars, chk>>

\* Another process of the same account replies to a comment.
ExternalReply ==
    /\ Running /\ Events < MaxEvents
    /\ \E id \in 1..Len(comments) :
          history' = <<[created |-> now, parent |-> id]>> \o history
    /\ externals' = externals + 1
    /\ UNCHANGED <<cfgVars, now, comments, queued_comments, ingestVars,
                   dispatchVars, chk>>

\* -------------------------------------------------------- stream(), 184-192
ISet(pc, cur, cause, jd, pt) ==
    /\ ipc' = pc /\ icur' = cur /\ icause' = cause /\ judged' = jd /\ putTasks' = pt

\* Lines 188-191 and 92-107: the feed delivers comment c, the text is
\* extracted and searched, user.me() answers, the author is compared.  The
\* await of user.me() touches nothing the tasks share (and asyncpraw answers
\* from its cache after the first call), so it is not a step of its own.
IngestFront(c) ==
    \E me \in MeResults :
       CASE CheckFront(c, me) = "raise" ->
                ISet("dead", NoComment, FrontCause(c), judged, putTasks)
         [] CheckFront(c, me) = "false" ->
                ISet("recv", NoComment, "none", judged, putTasks)
         [] OTHER -> ISet("hist", c, "none", judged, putTasks)

\* A comment that can become a target: its text matches and it is not the
\* bot's own.  Only these are kept in comments (to be delivered again, or
\* replied to by another process) and only these get an id of their own: any
\* other comment is dropped by the check whenever it is delivered, so it
\* stands under id 0.
CanBeTarget(a, b) == a = Other /\ b = "match"

\* The feed delivers a comment just made on the platform.
stream_new ==
    /\ Running /\ ipc = "recv"
    /\ Events < MaxEvents
    /\ \E a \in Authors, b \in Bodies :
          IF CanBeTarget(a, b)
          THEN /\ Len(comments) < MaxComments
               /\ LET c == [id |-> Len(comments) + 1, author |-> a, body |-> b,
                            created |-> now]
                  IN  comments' = Append(comments, c) /\ IngestFront(c)
          ELSE /\ comments' = comments
               /\ IngestFront([id |-> 0, author |-> a, body |-> b, created |-> now])
    /\ UNCHANGED <<cfgVars, now, history, externals, queued_comments,
                   dispatchVars, chk>>

\* The feed delivers a comment it has delivered before.
stream_again ==
    /\ Running /\ ipc = "recv"
    /\ Events < MaxEvents
    /\ \E id \in 1..Len(comments) : IngestFront(comments[id])
    /\ UNCHANGED <<cfgVars, now, comments, history, externals, queued_comments,
                   dispatchVars, chk>>

\* Lines 111-122 and 191-192 at ingest: the own comments are fetched and
\* scanned; an eligible comment gets its _reply_in_the_future task.
stream_check ==
    /\ Running /\ ipc = "hist"
    /\ IF HistStage(icur, history) = "true"
       THEN ISet("recv", NoComment, "none", Append(judged, icur.id),
                 Append(putTasks, icur))
       ELSE ISet("recv", NoComment, "none", judged, putTasks)
    /\ UNCHANGED <<cfgVars, now, comments, history, externals, queued_comments,
                   dispatchVars, chk>>

reply_in_the_future_bounded ==
    /\ Running /\ putTasks # <<>>
    /\ queued_comments = <<>>
    /\ queued_comments' = Append(queued_comments, Head(putTasks))
    /\ putTasks' = Tail(putTasks)
    /\ UNCHANGED <<cfgVars, now, comments, history, externals,
                   ipc, icur, icause, judged, dispatchVars, chk>>

\* Lines 124-125: the event loop runs the oldest ready task; put on an
\* unbounded queue does not wait.
reply_in_the_future ==
    /\ Running /\ putTasks # <<>>
    /\ queued_comments' = Append(queued_comments, Head(putTasks))
    /\ putTasks' = Tail(putTasks)
    /\ UNCHANGED <<cfgVars, now, comments, history, externals,
                   ipc, icur, icause, judged, dispatchVars, chk>>

\* ------------------------------------------------ _start_replying(), 127-148
DSet(pc, cur, wk, cause, lg, nc, st, lrt, lk) ==
    /\ dpc' = pc /\ dcur' = cur /\ wakeAt' = wk /\ dcause' = cause /\ log' = lg
    /\ netCalls' = nc /\ staleAtLock' = st /\ last_reply_time' = lrt
    /\ reply_lock' = lk
    /\ UNCHANGED workerVars

\* What is noted of an item the dispatcher is done with; t is the time of an
\* issued reply (a dry-run no-op included).
Entry(c, outcome, st) ==
    [id |-> c.id, outcome |-> outcome, stale |-> st,
     t |-> IF outcome \in {"replied", "noop"} THEN now ELSE 0]

AbandonStamping(c, st) ==
    DSet("get", NoComment, 0, "none", Append(log, Entry(c, "abandoned", st)),
         netCalls, FALSE, now, FALSE)

AbandonKeepsLock(c, st) ==
    DSet("get", NoComment, 0, "none", Append(log, Entry(c, "abandoned", st)),
         netCalls, FALSE, last_reply_time, TRUE)

\* Lines 141-143: the double check failed; "continue" leaves the lock.
Abandon(c, st) ==
    DSet("get", NoComment, 0, "none", Append(log, Entry(c, "abandoned", st)),
         netCalls, FALSE, last_reply_time, FALSE)

\* An exception leaves the coroutine: the lock is left, the task ends.
Die(c, cause, nc, st) ==
    DSet("dead", NoComment, 0, cause, Append(log, Entry(c, "failed", st)), nc,
         FALSE, last_reply_time, FALSE)

\* A reply to comment id is in the own comments.
HasReplyTo(id) == \E i \in 1..Len(history) : history[i].parent = id

\* Lines 139-141 and 92-107: the lock is taken and the double check runs up
\* to the fetch of the own comments.
EnterGuard(c) ==
    \E me \in MeResults :
       CASE CheckFront(c, me) = "raise" ->
                Die(c, FrontCause(c), netCalls, HasReplyTo(c.id))
         [] CheckFront(c, me) = "false" -> Abandon(c, HasReplyTo(c.id))
         [] OTHER -> DSet("hist", c, 0, "none", log, netCalls, HasReplyTo(c.id),
                          last_reply_time, TRUE)

\* Lines 129-139: an entry is popped; the dispatcher sleeps for the rest of the
\* cooldown, or goes on at once.
start_replying_get ==
    /\ Running /\ dpc = "get" /\ queued_comments # <<>>
    /\ queued_comments' = QueueGet(queued_comments).rest
    /\ LET c == QueueGet(queued_comments).item
           w == CooldownWait(now, last_reply_time, timeout)
       IN  IF w > 0
           THEN DSet("sleep", c, now + w, "none", log, netCalls, FALSE,
                     last_reply_time, reply_lock)
           ELSE ~reply_lock /\ EnterGuard(c)
    /\ UNCHANGED <<cfgVars, now, comments, history, externals,
                   ingestVars, chk>>

\* Lines 137-141: asyncio.sleep is over.
start_replying_wake ==
    /\ Running /\ dpc = "sleep" /\ now >= wakeAt
    /\ ~reply_lock /\ EnterGuard(dcur)
    /\ UNCHANGED <<cfgVars, now, comments, history, externals, queued_comments,
                   ingestVars, chk>>

\* Lines 111-122 and 141-148 in the double check: the own comments are fetched
\* and scanned.  In dry-run nothing is awaited before line 148.
start_replying_check ==
    /\ Running /\ dpc = "hist"
    /\ IF HistStage(dcur, history) # "true"
       THEN Abandon(dcur, staleAtLock)
       ELSE IF IssuesNetworkCall(dry_run)
       THEN DSet("reply", dcur, 0, "none", log, netCalls, staleAtLock,
                 last_reply_time, TRUE)
       ELSE DSet("get", NoComment, 0, "none",
                 Append(log, Entry(dcur, "noop", staleAtLock)), netCalls, FALSE,
                 now, FALSE)
    /\ UNCHANGED <<cfgVars, now, comments, history, externals, queued_comments,
                   ingestVars, chk>>

\* Line 147: comment.reply reaches the platform, which makes the reply, or raises.
start_replying_reply ==
    /\ Running /\ dpc = "reply"
    /\ \E r \in ReplyResults :
          IF r = "ok"
          THEN /\ history' = <<[created |-> now, parent |-> dcur.id]>> \o history
               /\ DSet("stamp", dcur, 0, "none",
                       Append(log, Entry(dcur, "replied", staleAtLock)),
                       netCalls + 1, staleAtLock, last_reply_time, TRUE)
          ELSE /\ history' = history
               /\ Die(dcur, "reply", netCalls + 1, staleAtLock)
    /\ UNCHANGED <<cfgVars, now, comments, externals, queued_comments,
                   ingestVars, chk>>

start_replying_stamp_holds ==
    /\ Running /\ dpc = "stamp"
    /\ DSet("get", NoComment, 0, "none", log, netCalls, FALSE, now, TRUE)
    /\ UNCHANGED <<cfgVars, now, comments, history, externals, queued_comments,
                   ingestVars, chk>>

\* Line 148: comment.reply has returned; the time is noted and the lock left.
start_replying_stamp ==
    /\ Running /\ dpc = "stamp"
    /\ DSet("get", NoComment, 0, "none", log, netCalls, FALSE, now, FALSE)
    /\ UNCHANGED <<cfgVars, now, comments, history, externals, queued_comments,
                   ingestVars, chk>>

\* ------------------------------------------------------------------ Spec
Next ==
    \/ Tick
    \/ ExternalReply
    \/ stream_new
    \/ stream_again
    \/ stream_check
    \/ reply_in_the_future
    \/ start_replying_get
    \/ start_replying_wake
    \/ start_replying_check
    \/ start_replying_reply
    \/ start_replying_stamp

Spec == Init /\ [][Next]_vars

\* ------------------------------------------ fair scheduling (LiveSpec)
\* The clock as in Tick, and it goes on past MaxTime while asyncio.sleep of
\* line 137 waits for it.
TickLive ==
    /\ Running
    /\ now < MaxTime \/ (dpc = "sleep" /\ now < wakeAt)
    /\ now' = now + 1
    /\ UNCHANGED <<cfgVars, comments, history, externals, queued_comments,
                   ingestVars, dispatchVars, chk>>

LiveNext ==
    \/ TickLive
    \/ ExternalReply
    \/ stream_new
    \/ stream_again
    \/ stream_check
    \/ reply_in_the_future
    \/ start_replying_get
    \/ start_replying_wake
    \/ start_replying_check
    \/ start_replying_reply
    \/ start_replying_stamp

\* The event loop runs every task that is ready (the dispatcher after its
\* queue.get, its sleep or an awaited call has come back), and time passes.
LiveSpec ==
    /\ Init /\ [][LiveNext]_vars
    /\ WF_vars(TickLive)
    /\ WF_vars(start_replying_get)
    /\ WF_vars(start_replying_wake)
    /\ WF_vars(start_replying_check)
    /\ WF_vars(start_replying_reply)
    /\ WF_vars(start_replying_stamp)

\* ------------------------- several _start_replying tasks (WorkersSpec)
\* The tasks that run _start_replying.  Line 186 creates one; here the line
\* is taken to run twice, the tasks sharing queue, lock and _last_reply_time.
\* In WorkersSpec the account is used by this process alone.
Workers == {1, 2}

LockFreeAlways(lk) == TRUE

\* Line 139: "async with self._reply_lock" goes on only while the lock is free.
LockFree(lk) == ~lk

WorkersInit ==
    /\ timeout \in Timeouts
    /\ dry_run \in BOOLEAN
    /\ now = 0
    /\ comments = <<>>
    /\ history = <<>>
    /\ externals = 0
    /\ queued_comments = <<>>
    /\ putTasks = <<>>
    /\ last_reply_time = DatetimeMin
    /\ reply_lock = FALSE
    /\ ipc = "recv" /\ icur = NoComment
    /\ dpc = "get" /\ dcur = NoComment /\ wakeAt = 0
    /\ icause = "none" /\ dcause = "none"
    /\ judged = <<>>
    /\ log = <<>>
    /\ netCalls = 0
    /\ staleAtLock = FALSE
    /\ wpc = [w \in Workers |-> "get"]
    /\ wcur = [w \in Workers |-> NoComment]
    /\ wwake = [w \in Workers |-> 0]
    /\ chk = NoChk

WSet(w, pc, cur, wk, lg, nc, lrt, lk) ==
    /\ wpc' = [wpc EXCEPT ![w] = pc]
    /\ wcur' = [wcur EXCEPT ![w] = cur]
    /\ wwake' = [wwake EXCEPT ![w] = wk]
    /\ log' = lg /\ netCalls' = nc /\ last_reply_time' = lrt /\ reply_lock' = lk
    /\ UNCHANGED <<dpc, dcur, wakeAt, dcause, staleAtLock>>

\* Lines 141-143 for task w.
WAbandon(w, c) ==
    WSet(w, "get", NoComment, 0, Append(log, Entry(c, "abandoned", FALSE)),
         netCalls, last_reply_time, FALSE)

\* An exception ends task w and leaves the lock.
WDie(w, c, nc) ==
    WSet(w, "dead", NoComment, 0, Append(log, Entry(c, "failed", FALSE)), nc,
         last_reply_time, FALSE)

\* Lines 139-141 and 92-107 for task w: it takes the lock if it is free and
\* runs the double check up to the fetch of the own comments; it waits for
\* the lock otherwise.
WEnterGuard(w, c) ==
    IF LockFree(reply_lock)
    THEN \E me \in MeResults :
            CASE CheckFront(c, me) = "raise" -> WDie(w, c, netCalls)
              [] CheckFront(c, me) = "false" -> WAbandon(w, c)
              [] OTHER -> WSet(w, "hist", c, 0, log, netCalls, last_reply_time, TRUE)
    ELSE WSet(w, "lock", c, 0, log, netCalls, last_reply_time, reply_lock)

\* Lines 129-139 for task w.
worker_get(w) ==
    /\ Running /\ wpc[w] = "get" /\ queued_comments # <<>>
    /\ queued_comments' = QueueGet(queued_comments).rest
    /\ LET c == QueueGet(queued_comments).item
           wt == CooldownWait(now, last_reply_time, timeout)
       IN  IF wt > 0
           THEN WSet(w, "sleep", c, now + wt, log, netCalls, last_reply_time,
                     reply_lock)
           ELSE WEnterGuard(w, c)
    /\ UNCHANGED <<cfgVars, now, comments, history, externals,
                   ingestVars, chk>>

\* Lines 137-141 for task w: asyncio.sleep is over.
worker_wake(w) ==
    /\ Running /\ wpc[w] = "sleep" /\ now >= wwake[w]
    /\ WEnterGuard(w, wcur[w])
    /\ UNCHANGED <<cfgVars, now, comments, history, externals, queued_comments,
                   ingestVars, chk>>

\* Line 139 for task w: the lock it waited for is free.
worker_lock(w) ==
    /\ Running /\ wpc[w] = "lock" /\ LockFree(reply_lock)
    /\ WEnterGuard(w, wcur[w])
    /\ UNCHANGED <<cfgVars, now, comments, history, externals, queued_comments,
                   ingestVars, chk>>

\* Lines 111-122 and 141-148 for task w.
worker_check(w) ==
    /\ Running /\ wpc[w] = "hist"
    /\ IF HistStage(wcur[w], history) # "true"
       THEN WAbandon(w, wcur[w])
       ELSE IF IssuesNetworkCall(dry_run)
       THEN WSet(w, "reply", wcur[w], 0, log, netCalls, last_reply_time, TRUE)
       ELSE WSet(w, "get", NoComment, 0,
                 Append(log, Entry(wcur[w], "noop", FALSE)), netCalls, now, FALSE)
    /\ UNCHANGED <<cfgVars, now, comments, history, externals, queued_comments,
                   ingestVars, chk>>

\* Line 147 for task w.
worker_reply(w) ==
    /\ Running /\ wpc[w] = "reply"
    /\ \E r \in ReplyResults :
          IF r = "ok"
          THEN /\ history' = <<[created |-> now, parent |-> wcur[w].id]>> \o history
               /\ WSet(w, "stamp", wcur[w], 0,
                       Append(log, Entry(wcur[w], "replied", FALSE)),
                       netCalls + 1, last_reply_time, TRUE)
          ELSE /\ history' = history
               /\ WDie(w, wcur[w], netCalls + 1)
    /\ UNCHANGED <<cfgVars, now, comments, externals, queued_comments,
                   ingestVars, chk>>

\* Line 148 for task w.
worker_stamp(w) ==
    /\ Running /\ wpc[w] = "stamp"
    /\ WSet(w, "get", NoComment, 0, log, netCalls, now, FALSE)
    /\ UNCHANGED <<cfgVars, now, comments, history, externals, queued_comments,
                   ingestVars, chk>>

WorkersNext ==
    \/ Tick
    \/ stream_new
    \/ stream_again
    \/ stream_check
    \/ reply_in_the_future
    \/ \E w \in Workers : worker_get(w)
    \/ \E w \in Workers : worker_wake(w)
    \/ \E w \in Workers : worker_lock(w)
    \/ \E w \in Workers : worker_check(w)
    \/ \E w \in Workers : worker_reply(w)
    \/ \E w \in Workers : worker_stamp(w)

WorkersSpec == WorkersInit /\ [][WorkersNext]_vars

\* ------------------------------------- the check on drawn inputs (PureSpec)
SortedNewestFirst(h) ==
    \A i \in 1..(Len(h) - 1) : h[i].created >= h[i + 1].created

\* Own comments as me.comments.new() may list them: newest first, each the
\* reply to comment parent (0: to something that is none of the comments).
PureReplies == [created : 0..MaxStamp, parent : 0..MaxComments]
PureHistories ==
    {h \in UNION {[1..n -> PureReplies] : n \in 0..MaxHist} : SortedNewestFirst(h)}
PureComments ==
    [id : 1..MaxComments, author : Authors, body : Bodies, created : 0..MaxStamp]

PureInit ==
    /\ timeout \in Timeouts
    /\ dry_run = FALSE
    /\ now = 0
    /\ comments = <<>>
    /\ history \in PureHistories
    /\ externals = 0
    /\ queued_comments = <<>>
    /\ putTasks = <<>>
    /\ last_reply_time = DatetimeMin
    /\ reply_lock = FALSE
    /\ ipc = "recv" /\ icur = NoComment
    /\ dpc = "get" /\ dcur = NoComment /\ wakeAt = 0
    /\ icause = "none" /\ dcause = "none"
    /\ judged = <<>>
    /\ log = <<>>
    /\ netCalls = 0
    /\ staleAtLock = FALSE
    /\ wpc = <<>> /\ wcur = <<>> /\ wwake = <<>>
    /\ chk = NoChk

\* _should_reply is called on comment c, user.me() doing me.
PureCheck ==
    /\ chk = NoChk
    /\ \E c \in PureComments, me \in MeResults :
          chk' = [used |-> TRUE, c |-> c, me |-> me,
                  out |-> should_reply(c, me, history),
                  scan |-> ScanFrom(history, 1, c)]
    /\ UNCHANGED <<cfgVars, now, comments, history, externals, queued_comments, ingestVars,
                   dispatchVars>>

PureSpec == PureInit /\ [][PureCheck]_vars
\* ------------------------------- the cooldown wait on drawn inputs (WaitSpec)
\* The instants at which an entry can be popped and those of the last reply
\* before it: dt.datetime.min (line 88) or an earlier now (line 148).
PopTimes == 0..(MaxTime + MaxStamp)
LastReplyTimes(t) == {DatetimeMin} \cup 0..t

WaitInit ==
    /\ timeout \in 1..MaxCooldown
    /\ dry_run = FALSE
    /\ now \in PopTimes
    /\ comments = <<>>
    /\ history = <<>>
    /\ externals = 0
    /\ queued_comments = <<>>
    /\ putTasks = <<>>
    /\ last_reply_time \in LastReplyTimes(now)
    /\ reply_lock = FALSE
    /\ ipc = "recv" /\ icur = NoComment
    /\ dpc = "get" /\ dcur = NoComment /\ wakeAt = 0
    /\ icause = "none" /\ dcause = "none"
    /\ judged = <<>>
    /\ log = <<>>
    /\ netCalls = 0
    /\ staleAtLock = FALSE
    /\ wpc = <<>> /\ wcur = <<>> /\ wwake = <<>>
    /\ chk = NoChk

\* Lines 132-137: the wait is computed for an entry popped now.
WaitCheck ==
    /\ chk = NoChk
    /\ chk' = [used |-> TRUE,
               wait |-> CooldownWait(now, last_reply_time, timeout)]
    /\ UNCHANGED <<cfgVars, now, comments, history, externals, queued_comments,
                   ingestVars, dispatchVars>>

WaitSpec == WaitInit /\ [][WaitCheck]_vars
\* ================================================================ claims
IsIssued(e) == e.outcome \in {"replied", "noop"}
IsReplied(e) == e.outcome = "replied"
\* The replies issued so far, dry-run no-ops included, in order.
Issued == SelectSeq(log, IsIssued)
Ids(q) == [i \in 1..Len(q) |-> q[i].id]
\* An own comment that answers c and is not older than c.
RepliedDecl(h, c) ==
    \E i \in 1..Len(h) : h[i].parent = c.id /\ h[i].created >= c.created

\* C1: any two consecutive issued replies (dry-run no-ops included) are at
\* least the configured cooldown apart.
C1_RateLimit ==
    \A i \in 1..(Len(Issued) - 1) : Issued[i + 1].t - Issued[i].t >= timeout

\* Two replies have been issued, the second after a cooldown sleep.
C1_Witness == Len(Issued) >= 2 /\ Issued[2].t > Issued[1].t

\* C2: outside dry-run no comment id gets more than one reply from the bot,
\* also when the feed delivers a comment more than once.
C2_AtMostOneReplyPerTarget ==
    ~dry_run =>
       \A i, j \in 1..Len(log) :
          (IsReplied(log[i]) /\ IsReplied(log[j]) /\ log[i].id = log[j].id) => i = j

\* A comment delivered twice was replied to once and abandoned the second time.
C2_Witness ==
    /\ ~dry_run
    /\ \E i, j \in 1..Len(log) :
          /\ i < j /\ log[i].id = log[j].id
          /\ IsReplied(log[i]) /\ log[j].outcome = "abandoned"

\* C3: an item whose target already had a reply in the own comments when the
\* dispatcher took the lock for it gets no reply.
C3_RecheckBeforeAct ==
    /\ \A i \in 1..Len(log) : IsIssued(log[i]) => ~log[i].stale
    /\ dpc \in {"reply", "stamp"} => ~staleAtLock

\* An enqueued item was abandoned because another process had answered it.
C3_Witness ==
    \E i \in 1..Len(log) :
       log[i].stale /\ log[i].outcome = "abandoned" /\ externals > 0

\* C4: the comments judged eligible are, in that order, those the dispatcher
\* has dealt with (replied to, abandoned or failed on), the one it has popped
\* and not yet dealt with, those in the queue and those whose enqueue task
\* has not run yet.
C4_FifoOrder ==
    judged = Ids(log) \o (IF dpc \in {"sleep", "hist", "reply"}
                          THEN <<dcur.id>> ELSE <<>>)
                      \o Ids(queued_comments) \o Ids(putTasks)

\* Two different comments have gone through the dispatcher.
C4_Witness == Len(log) >= 2 /\ log[1].id # log[2].id

\* A comment.reply call has raised.
ReplyFailed == netCalls > Len(SelectSeq(log, IsReplied))

\* C5: after a failed reply call the dispatch loop is still running.
C5_ReplyFailureIsPerItem == ReplyFailed => dpc # "dead"

\* C6: no loop is ended by a failure to convert a comment's markup.
C6_ParseFailureIsPerItem ==
    /\ ~(ipc = "dead" /\ icause = "parse")
    /\ ~(dpc = "dead" /\ dcause = "parse")

\* C7: no loop is ended by a failure of the own-identity lookup.
C7_IdentityFailureIsPerItem ==
    /\ ~(ipc = "dead" /\ icause = "me")
    /\ ~(dpc = "dead" /\ dcause = "me")

\* C8: in dry-run no reply call is made and each item that passes the double
\* check sets last_reply_time, so that the next one waits for the cooldown;
\* outside dry-run each such item costs exactly one reply call.
C8_DryRun ==
    /\ dry_run =>
          /\ netCalls = 0
          /\ \A i \in 1..Len(log) : ~IsReplied(log[i])
          /\ Len(Issued) > 0 => last_reply_time = Issued[Len(Issued)].t
    /\ ~dry_run =>
          /\ \A i \in 1..Len(log) : log[i].outcome # "noop"
          /\ netCalls = Len(Issued) + (IF dcause = "reply" THEN 1 ELSE 0)
    /\ dpc = "sleep" => wakeAt >= last_reply_time + timeout

\* In dry-run an item passed the double check and the next one sleeps.
C8_Witness ==
    dry_run /\ Len(Issued) = 1 /\ dpc = "sleep" /\ last_reply_time = Issued[1].t

\* C9: the check answers true exactly when the text matches, the own identity
\* is there, the author is not the bot and no own comment answers the target;
\* it answers false when the text does not match, whatever the rest, and false
\* for the bot's own comments.
C9_EligibilityComposition ==
    chk.used =>
       /\ (chk.out = "true") <=>
             /\ chk.c.body = "match"
             /\ chk.me = "ok"
             /\ chk.c.author # Me
             /\ ~RepliedDecl(history, chk.c)
       /\ chk.c.body = "nomatch" => chk.out = "false"
       /\ (chk.c.author = Me /\ chk.c.body = "match" /\ chk.me = "ok") =>
             chk.out = "false"
       /\ chk.c.author = Me => chk.out # "true"

\* The check has answered true with own comments to look through.
C9_Witness == chk.used /\ chk.out = "true" /\ Len(history) >= 2

\* C10: on own comments listed newest first the scan answers "replied" exactly
\* when one of them answers the target and is not older than it; it looks at
\* the own comments up to the first that is older than the target or answers
\* it, and at all of them when there is none.
C10_DedupScan ==
    chk.used =>
       LET c == chk.c
           Stop(i) == history[i].created < c.created \/ history[i].parent = c.id
           n == chk.scan.examined
       IN  /\ chk.scan.replied <=> RepliedDecl(history, c)
           /\ IF \E i \in 1..Len(history) : Stop(i)
              THEN n \in 1..Len(history) /\ Stop(n) /\ \A j \in 1..(n - 1) : ~Stop(j)
              ELSE n = Len(history) /\ ~chk.scan.replied

\* The one own comment is newer than the target and answers it.
C10_Witness ==
    /\ chk.used /\ Len(history) = 1
    /\ history[1].parent = chk.c.id /\ history[1].created > chk.c.created
    /\ chk.scan.replied

\* A step of stream() or of one of its enqueue tasks.
IngestStep == ingestVars' # ingestVars

\* C12: whatever the dispatcher is doing, the ingest loop's next step can be
\* taken: a comment received (while the feed has one), the own comments
\* scanned, a created enqueue task run; and no such step takes or leaves the
\* lock or moves the dispatcher.
C12_IngestNeverWaits ==
    /\ [](Running =>
            /\ (ipc = "recv" /\ Events < MaxEvents) => ENABLED stream_new
            /\ ipc = "hist" => ENABLED stream_check
            /\ putTasks # <<>> => ENABLED reply_in_the_future)
    /\ [][IngestStep => UNCHANGED <<reply_lock, dpc, dcur, last_reply_time>>]_vars

\* The dispatcher holds the lock in the reply call and a comment enqueued
\* meanwhile waits in the queue.
C12_Witness == reply_lock /\ dpc = "reply" /\ queued_comments # <<>>

\* The tasks inside the guarded region: from the fetch of the own comments in
\* the double check to the update of last_reply_time.
InGuard == {w \in Workers : wpc[w] \in {"hist", "reply", "stamp"}}

\* C13: with two tasks running the dispatch loop on the same queue and lock,
\* at most one of them is between the double check and the update of
\* last_reply_time, and the lock is held exactly while one is.
C13_MutualExclusion ==
    /\ Cardinality(InGuard) <= 1
    /\ reply_lock <=> InGuard # {}

\* One task is in the reply call while the other waits for the lock.
C13_Witness == \E v, w \in Workers : wpc[v] = "reply" /\ wpc[w] = "lock"

\* Line 132 runs in the step that pops an entry; line 148 is the one assignment.
ReadsLastReplyTime == dpc = "get" /\ Len(queued_comments') < Len(queued_comments)
WritesLastReplyTime == last_reply_time' # last_reply_time

\* C14: a step of the dispatcher that reads last_reply_time for the elapsed
\* time, or that assigns it, holds the lock when it starts or when it ends,
\* or has been through the guarded block (it notes an outcome).
C14_AccessUnderGuard ==
    [][(ReadsLastReplyTime \/ WritesLastReplyTime) =>
          (reply_lock \/ reply_lock' \/ Len(log') > Len(log))]_vars

\* C15: for an entry popped now the dispatcher does not sleep when the time
\* since the last reply is the cooldown or more, and otherwise sleeps the
\* least whole number of seconds that is not less than what is left of the
\* cooldown; ten minutes of cooldown and a last reply three minutes ago give
\* seven minutes, and with last_reply_time at its initial value it does not
\* sleep.
C15_CooldownWait ==
    /\ chk.used =>
          LET elapsed == now - last_reply_time
              rest == timeout - elapsed
          IN  /\ elapsed >= timeout => chk.wait = 0
              /\ elapsed < timeout =>
                    /\ chk.wait % TicksPerSecond = 0
                    /\ chk.wait >= rest
                    /\ chk.wait - TicksPerSecond < rest
              /\ last_reply_time = DatetimeMin => chk.wait = 0
    /\ CooldownWait(180 * TicksPerSecond, 0, 600 * TicksPerSecond)
          = 420 * TicksPerSecond

\* What is left of the cooldown is not a whole number of seconds, and the wait
\* is rounded up.
C15_Witness ==
    /\ chk.used /\ chk.wait > timeout - (now - last_reply_time)
    /\ now - last_reply_time < timeout

\* The dispatcher notes an outcome in this step.
Notes(outcome) ==
    Len(log') = Len(log) + 1 /\ log'[Len(log')].outcome = outcome

\* C16: a step in which the double check fails makes no reply call, adds no
\* own comment, leaves last_reply_time as it is, puts nothing on the queue,
\* leaves the lock free and the dispatcher at the pop; and last_reply_time
\* changes only in the step after a reply call that was made for the item at
\* hand, or in the dry-run step that passes the double check.
C16_AbandonFrame ==
    [][/\ Notes("abandoned") =>
             /\ last_reply_time' = last_reply_time
             /\ netCalls' = netCalls /\ history' = history
             /\ putTasks' = putTasks
             /\ \/ queued_comments' = queued_comments
                \/ /\ queued_comments # <<>>
                   /\ queued_comments' = Tail(queued_comments)
             /\ ~reply_lock' /\ dpc' = "get"
       /\ last_reply_time' # last_reply_time =>
             \/ /\ dpc = "stamp" /\ reply_lock /\ log # <<>>
                /\ log[Len(log)].id = dcur.id /\ IsReplied(log[Len(log)])
             \/ dpc = "hist" /\ reply_lock /\ Notes("noop")]_vars

\* An item was abandoned after an earlier reply, later than that reply, and
\* last_reply_time is still the time of the reply.
C16_Witness ==
    /\ Len(log) >= 2 /\ log[Len(log)].outcome = "abandoned"
    /\ Len(Issued) >= 1 /\ last_reply_time = Issued[Len(Issued)].t
    /\ now > last_reply_time /\ dpc = "get" /\ ~reply_lock

\* C17 as stated: no step of the ingest loop is taken while the dispatcher is
\* in the double check or in the reply call.
C17_OnlySleepYields ==
    [][IngestStep => dpc \notin {"hist", "reply", "stamp"}]_vars

\* C17: a step of the ingest loop finds the dispatcher at one of its awaits:
\* with the lock free at queue.get or in the cooldown sleep (or ended), or with
\* the lock held at the fetch of the own comments or in the reply call.
C17_YieldPoints ==
    [][IngestStep =>
          \/ dpc \in {"get", "sleep", "dead"} /\ ~reply_lock
          \/ dpc \in {"hist", "reply", "stamp"} /\ reply_lock]_vars

\* The ingest loop has received a comment made after the reply that the
\* dispatcher, still in the reply call and holding the lock, has sent.
C17_Witness ==
    /\ dpc = "stamp" /\ reply_lock /\ ipc = "hist"
    /\ icur.created > log[Len(log)].t

\* Comment id is one the ingest loop could admit: its text matches the pattern
\* and its author is not the bot.
Admissible(id) ==
    /\ id \in 1..Len(comments)
    /\ comments[id].body = "match" /\ comments[id].author # Me

\* The enqueue tasks that have run.
Enqueued == Len(judged) - Len(putTasks)

\* C18: the i-th item the dispatcher has dealt with is the i-th comment the
\* ingest loop judged eligible; each reply issued (and the one being issued)
\* is for a comment whose text matches and whose author is not the bot; and
\* the items dealt with or at hand never outnumber the enqueues.
C18_AdmittedTwice ==
    /\ \A i \in 1..Len(log) :
          /\ i <= Len(judged) /\ judged[i] = log[i].id
          /\ IsIssued(log[i]) => Admissible(log[i].id)
    /\ dpc \in {"reply", "stamp"} => Admissible(dcur.id)
    /\ Len(log) + (IF dpc \in {"sleep", "hist", "reply"} THEN 1 ELSE 0)
          + Len(queued_comments) = Enqueued

\* Two different comments have been replied to, each enqueued before.
C18_Witness ==
    /\ Len(log) = 2 /\ IsIssued(log[1]) /\ IsIssued(log[2])
    /\ log[1].id # log[2].id /\ Enqueued = 2

\* C20: the lock is free whenever the dispatcher waits at queue.get, sleeps
\* for the cooldown or has ended; it is held exactly from the double check's
\* fetch of the own comments to the end of the iteration.
C20_GuardReleased ==
    /\ dpc \in {"get", "sleep", "dead"} => ~reply_lock
    /\ dpc \in {"hist", "reply", "stamp"} => reply_lock

\* The dispatcher is back at queue.get with the lock free after a reply and
\* after an abandon.
C20_Witness ==
    /\ dpc = "get" /\ ~reply_lock /\ Len(log) = 2
    /\ IsReplied(log[1]) /\ log[2].outcome = "abandoned"

\* No call of the eligibility check or of comment.reply has raised.
NoFailure == ipc # "dead" /\ dpc # "dead"

\* The k-th enqueued comment has been replied to or abandoned.
Handled(k) ==
    Len(log) >= k /\ log[k].outcome \in {"replied", "noop", "abandoned"}

\* C19: under fair scheduling of the dispatcher, in a run in which no check
\* and no reply call raises, the k-th comment put on the queue is eventually
\* replied to or abandoned, for every k.
C19_EventualDispatch ==
    []NoFailure => \A k \in 1..MaxEvents : (Enqueued >= k) ~> Handled(k)

\* The second enqueued comment was replied to after a cooldown sleep that
\* ended later than MaxTime.
C19_Witness ==
    /\ Len(log) = 2 /\ IsIssued(log[2]) /\ log[2].t > MaxTime /\ NoFailure
====
